---- MODULE Spec2Model ----
(***************************************************************************)
(* Sage Dialog Enhancer: the batch transcode orchestrator                  *)
(* (VideoProcessorApp.run_processing), the per-job worker                  *)
(* (VideoProcessor.process_video), the cancellation protocol               *)
(* (stop_processing) and the three event queues drained by the Tk          *)
(* main-loop callback process_events.                                      *)
(*                                                                         *)
(* Two contexts run concurrently: the Tk main loop (one handler at a time) *)
(* and the background thread started by start_processing.  Each action of  *)
(* the thread is one stretch of code between two accesses to state the     *)
(* main loop or an external process can change.                            *)
(***************************************************************************)
EXTENDS Integers, Sequences, FiniteSets, TLC

----------------------------------------------------------------------------
\* Bounds of the model.

\* Output lines one ffmpeg process writes before it goes quiet.
MaxLines == 1
\* Batch runs started during one behaviour.
MaxRuns == 1
\* File-intake and settings operations the user performs in one behaviour,
\* after those that built the initial list.
MaxUserOps == 1
\* Paths handed to add_to_list by one dialog or drop.
MaxDrop == 1
\* Files in the list when the behaviour begins.
MaxListed == 2
\* Output files that exist before the program is started.
MaxExisting == 1
\* Output lines of one ffmpeg process where the read loop is studied.
MaxLinesRead == 2
\* Intake operations and paths of one drop where the intake is studied.
MaxIntakeOps == 3
MaxIntakeDrop == 2
\* Runs where one run after another is studied.
MaxRunsAgain == 2
\* Intake operations and paths of one drop where the list is edited during
\* a run.
MaxEdits == 2
MaxEditDrop == 2
\* Equalizer bands of a configuration where the filter chain is studied.
MaxBands == 3

----------------------------------------------------------------------------
\* Values.

\* Input files: same folder, two of them share the stem.
Files ==
    { [parent |-> "d", stem |-> "a", ext |-> ".mp4"],
      [parent |-> "d", stem |-> "a", ext |-> ".mkv"],
      [parent |-> "d", stem |-> "b", ext |-> ".mp4"] }

\* What a dialog or a drop hands over: a path as it is spelled ("d/a.mp4" or
\* "d/./a.mp4"), of a video or of some other file.
Spelled(f, how) == [parent |-> f.parent, stem |-> f.stem, ext |-> f.ext, how |-> how]

TextFile == [parent |-> "d", stem |-> "a", ext |-> ".txt"]

Offered ==
    { Spelled(f, "plain") : f \in Files \cup {TextFile} }
        \cup { Spelled(f, "dotted") : f \in { g \in Files : g.ext = ".mp4" } }

DEFAULT_SUPPORTED_EXTENSIONS == {".mkv", ".mp4", ".mov"}

NoFile == [parent |-> "", stem |-> "", ext |-> ""]
NoDir == [parent |-> "", folder |-> ""]
NoPath == [dir |-> NoDir, stem |-> "", suffix |-> ""]

DEFAULT_EQUALIZER_BANDS ==
    << [f |-> "50",  t |-> "q", w |-> "2", g |-> "-12"],
       [f |-> "100", t |-> "q", w |-> "2", g |-> "-10"],
       [f |-> "150", t |-> "q", w |-> "2", g |-> "-6"] >>

DEFAULT_SPEECHNORM == [e |-> "6.25", r |-> "0.00001", l |-> "1"]

DEFAULT_OUTPUT_FOLDER == "processed"
DEFAULT_OUTPUT_SUFFIX == "_enhanced.mkv"

PROCESSING_DONE_TOKEN == "__PROCESSING_DONE__"

\* What the user types into the settings tab's entry widgets: the texts of
\* the folder and suffix entries, the gain entry of band 1 and the expansion
\* entry of speechnorm (the other entries keep their defaults).
Forms ==
    { [folder |-> "", suffix |-> " ", g |-> "-12", e |-> "6.25"],
      [folder |-> "out2", suffix |-> "_v2.mkv", g |-> "-3", e |-> "12.5"] }

\* Lines ffmpeg can write on the merged stream, by the markers they contain
\* (the empty set is a blank line).
Lines ==
    << {},
       {"out_time_ms="},
       {"progress=end"},
       {"progress=continue"},
       {"text"},
       {"out_time_ms=", "progress=end"} >>

LineIds == 1..Len(Lines)


\* Exit codes of ffmpeg: success, or an error.
ExitCodes == {0, 1}

\* Captured results of the ffprobe call: check=True raised, or its stdout as
\* the lines str.splitlines() gives, each a sequence of characters.
ProbeFailed == [ok |-> FALSE, stdout |-> << >>]

\* Codec and bit rate, as ffprobe prints them for a sound file.
GoodProbe == [ok |-> TRUE, stdout |-> << <<"a","c","3">>, <<"6","4","0","0","0">> >>]

ProbeResults ==
    { ProbeFailed,
      GoodProbe,
      \* nothing printed
      [ok |-> TRUE, stdout |-> << >>],
      \* the codec only
      [ok |-> TRUE, stdout |-> << <<"a","c","3">> >>],
      \* no bit rate known
      [ok |-> TRUE, stdout |-> << <<"a","c","3">>, <<"N","/","A">> >>],
      \* blank lines around the two
      [ok |-> TRUE, stdout |-> << << >>, <<"a","c","3">>, <<"6","4","0","0","0">>, << >> >>],
      \* less than 1000 bits per second
      [ok |-> TRUE, stdout |-> << <<"a","c","3">>, <<"5","0","0">> >>],
      \* a third line
      [ok |-> TRUE, stdout |-> << <<"a","c","3">>, <<"6","4","0","0","0">>, <<"N","/","A">> >>],
      \* a digit that is no decimal digit
      [ok |-> TRUE, stdout |-> << <<"a","c","3">>, <<"6","^2">> >>] }

\* What the surroundings offer where the orchestrator and the worker are
\* studied: the files the user picks from, the inputs whose output may exist
\* beforehand, what an installed ffprobe answers and the lines an ffmpeg
\* process writes.
MainEnvironment ==
    [ files |-> { f \in Files : f.ext = ".mp4" },
      offered |-> { d \in Offered : d.ext = ".mp4" /\ d.how = "plain" },
      ops |-> MaxUserOps,
      runs |-> MaxRuns,
      drop |-> MaxDrop,
      existing |-> { f \in Files : f.stem = "a" },
      probes |-> {GoodProbe},
      lines |-> { id \in LineIds : Lines[id] = {"out_time_ms="} },
      nlines |-> MaxLines ]

Digits == <<"0","1","2","3","4","5","6","7","8","9">>

\* An event of a queue: a kind and two numbers (job number, total, progress
\* value, exit code or line id, by kind).
Ev(k, v, w) == [k |-> k, v |-> v, w |-> w]
\* The same event tagged with the queue it goes to.
On(ch, k, v, w) == [ch |-> ch, k |-> k, v |-> v, w |-> w]

Untag(e) == [k |-> e.k, v |-> e.v, w |-> e.w]

RECURSIVE MapUntag(_)
MapUntag(s) == IF s = << >> THEN << >> ELSE <<Untag(Head(s))>> \o MapUntag(Tail(s))

OfChannel(evs, ch) == MapUntag(SelectSeq(evs, LAMBDA e : e.ch = ch))

----------------------------------------------------------------------------
VARIABLES
    \* VideoProcessorApp
    file_list, entries, config_vars, processor, processing_thread,
    log_queue, debug_queue, progress_queue,
    process_btn, stop_btn,
    \* the handler the Tk main loop is inside of
    ui_pc, ui_error,
    \* VideoProcessor
    stop_event, current_process,
    \* locals of run_processing / process_video
    i, total_files, input_path, output_folder, output_path, audio,
    \* surroundings: existing output files, ffmpeg processes, installed tools,
    \* and what they offer
    fs, dirs, procs, tools_ok, environment,
    \* history
    run, batch, existed, touched, state, info, emitted, overall, sentinels, history,
    raised, stopAt, ops

appVars == <<file_list, entries, config_vars, processor, process_btn, stop_btn,
             ui_pc, ui_error>>
queueVars == <<log_queue, debug_queue, progress_queue>>
threadVars == <<processing_thread, i, total_files, input_path, output_folder,
                output_path, audio>>
envVars == <<fs, dirs, procs, tools_ok, environment>>
histVars == <<run, batch, existed, touched, state, info, emitted, overall,
              sentinels, history, raised, stopAt, ops>>

vars == <<appVars, queueVars, threadVars, envVars, histVars,
          stop_event, current_process>>

----------------------------------------------------------------------------
\* Pure functions of the source.

\* str.strip() on the texts an entry can hold: blank texts become empty.
Strip(s) == IF s \in {"", " "} THEN "" ELSE s

\* Python's `x or d` on strings.
OrDefault(s, d) == IF s = "" THEN d ELSE s

\* `sub in marker`, for the markers a line can carry.
IsSubstr(sub, marker) ==
    \/ sub = marker
    \/ sub = "progress=" /\ marker \in {"progress=end", "progress=continue"}

\* `sub in line`
Contains(line, sub) == \E m \in line : IsSubstr(sub, m)

\* pathlib: Path(input_path).parent / folder
OutputFolder(path, folder) == [parent |-> path.parent, folder |-> folder]

\* pathlib: output_folder / (Path(input_path).stem + suffix).  The name is
\* kept as the pair it is concatenated from; on the stems and suffixes of
\* this model the concatenation is one-to-one.
OutputPath(dir, path, suffix) == [dir |-> dir, stem |-> path.stem, suffix |-> suffix]

\* Output paths that may exist when the program starts: those the default
\* settings give to the inputs.
Outputs(files) ==
    { OutputPath(OutputFolder(p, DEFAULT_OUTPUT_FOLDER), p, DEFAULT_OUTPUT_SUFFIX) :
        p \in files }

\* apply_settings: config_vars rebuilt from the entry widgets.
ApplyForm(cfg, form) ==
    [ equalizer_bands |->
          [cfg.equalizer_bands EXCEPT ![1] = [@ EXCEPT !.g = form.g]],
      speechnorm |-> [cfg.speechnorm EXCEPT !.e = form.e],
      output_folder |-> OrDefault(Strip(form.folder), DEFAULT_OUTPUT_FOLDER),
      output_suffix |-> OrDefault(Strip(form.suffix), DEFAULT_OUTPUT_SUFFIX) ]

\* One rendered equalizer clause.
EqClause(band) == <<"equalizer", "f", band.f, "t", band.t, "w", band.w, "g", band.g>>

\* The clauses of the bands, last band first.
EqClausesReversed(bands) ==
    [ n \in 1..Len(bands) |-> EqClause(bands[Len(bands) + 1 - n]) ]

RECURSIVE EqClauses(_)
EqClauses(bands) ==
    IF bands = << >> THEN << >>
    ELSE <<EqClause(Head(bands))>> \o EqClauses(Tail(bands))

SnClause(sn) == <<"speechnorm", "e", sn.e, "r", sn.r, "l", sn.l>>

RECURSIVE Join(_, _)
\* sep.join(parts), as one sequence of tokens.
Join(parts, sep) ==
    IF parts = << >> THEN << >>
    ELSE IF Len(parts) = 1 THEN Head(parts)
    ELSE Head(parts) \o <<sep>> \o Join(Tail(parts), sep)

\* build_audio_filter: the clauses of the bands and of speechnorm, joined
\* with ",".
build_audio_filter(p) ==
    Join(EqClauses(p.equalizer_bands) \o <<SnClause(p.speechnorm_params)>>, ",")

\* str.isdigit on a line given as its characters.
IsDecimal(line) ==
    /\ Len(line) > 0
    /\ \A n \in 1..Len(line) : \E d \in 1..Len(Digits) : Digits[d] = line[n]

\* str.isdigit also accepts digits that are no decimal digits, such as the
\* superscript two ("^2" here), which int() rejects.
IsDigit(line) ==
    /\ Len(line) > 0
    /\ \A n \in 1..Len(line) :
          line[n] = "^2" \/ \E d \in 1..Len(Digits) : Digits[d] = line[n]

DigitValue(c) == (CHOOSE d \in 1..Len(Digits) : Digits[d] = c) - 1

RECURSIVE IntOf(_)
\* int() of a digit string.
IntOf(line) ==
    IF line = << >> THEN 0
    ELSE 10 * IntOf(SubSeq(line, 1, Len(line) - 1)) + DigitValue(line[Len(line)])

DefaultAudio == [codec |-> <<"a","a","c">>, kbps |-> 192, unit |-> "k"]

RECURSIVE LStrip(_)
LStrip(lines) ==
    IF lines # << >> /\ Head(lines) = << >> THEN LStrip(Tail(lines)) ELSE lines

RECURSIVE RStrip(_)
RStrip(lines) ==
    IF lines # << >> /\ lines[Len(lines)] = << >>
    THEN RStrip(SubSeq(lines, 1, Len(lines) - 1)) ELSE lines

\* result.stdout.strip().splitlines(): the lines without the blank ones at
\* either end.
StripLines(stdout) == RStrip(LStrip(stdout))

\* Whether get_audio_info ends in its except clause: subprocess.run raised,
\* or int() did on a line isdigit let through.
ProbeRaises(result) ==
    \/ ~result.ok
    \/ LET lines == StripLines(result.stdout)
       IN  Len(lines) > 1 /\ IsDigit(lines[2]) /\ ~IsDecimal(lines[2])

\* Codec and bit rate are both there, the bit rate a decimal number.
WellFormed(result) ==
    /\ result.ok
    /\ LET lines == StripLines(result.stdout)
       IN  Len(lines) = 2 /\ IsDecimal(lines[2])

\* A prober that answers any flaw of the output with the whole default.
AllOrDefault(result) ==
    IF WellFormed(result)
    THEN LET lines == StripLines(result.stdout)
         IN  [codec |-> lines[1], kbps |-> IntOf(lines[2]) \div 1000, unit |-> "k"]
    ELSE DefaultAudio

\* get_audio_info: (codec, bitrate) from a captured ffprobe result; the
\* bitrate f"{n}k" is kept as the number and its unit.
get_audio_info(result) ==
    IF ProbeRaises(result) THEN DefaultAudio
    ELSE LET lines == StripLines(result.stdout)
         IN  [ codec |-> IF Len(lines) > 0 THEN lines[1] ELSE <<"a","a","c">>,
               kbps  |-> IF Len(lines) > 1 /\ IsDigit(lines[2])
                         THEN IntOf(lines[2]) \div 1000 ELSE 192,
               unit  |-> "k" ]

\* A prober that reports each probe once: the output, or else the error.
ProbeEventsOnce(result, n) ==
    IF result.ok THEN <<On("debug", "Audio info", n, 0)>>
    ELSE <<On("debug", "Audio info error", n, 0)>>

\* The debug events of get_audio_info (lines 95 and 101), for job n.
ProbeEvents(result, n) ==
    (IF result.ok THEN <<On("debug", "Audio info", n, 0)>> ELSE << >>)
        \o (IF ProbeRaises(result) THEN <<On("debug", "Audio info error", n, 0)>>
            ELSE << >>)

\* _parse_progress: the progress events one line gives.
parse_progress(line) ==
    IF Contains(line, "out_time_ms=") THEN <<On("progress", "file_progress", 50, 0)>>
    ELSE IF Contains(line, "progress=end") THEN <<On("progress", "file_progress", 100, 0)>>
    ELSE << >>

\* A read loop that keeps the progress lines from the debug queue.
HandleLineProgressApart(id) ==
    LET line == Lines[id]
    IN  IF line = {} THEN << >>
        ELSE IF Contains(line, "progress=") \/ Contains(line, "out_time_ms=")
        THEN parse_progress(line)
        ELSE <<On("debug", "line", id, 0)>>

\* One iteration of the read loop on a line that was read with no stop
\* requested: the events put, in order.
HandleLine(id) ==
    LET line == Lines[id]
    IN  IF line = {} THEN << >>
        ELSE (IF Contains(line, "progress=") \/ Contains(line, "out_time_ms=")
              THEN parse_progress(line) ELSE << >>)
             \o <<On("debug", "line", id, 0)>>

----------------------------------------------------------------------------
\* Initial state: VideoProcessorApp.__init__.  The texts and bar values of
\* the widgets are display only and are not part of the state; the states of
\* the two buttons are, since they decide which handlers can run.

Jobs == 1..Cardinality(Files)

\* What was decided for a job: its output path, its filter chain, the probes
\* and spawns made for it, the file that was probed and what the last probe
\* captured.
NoInfo ==
    [out |-> NoPath, chain |-> << >>, probes |-> 0, spawns |-> 0,
     file |-> NoFile, probe |-> ProbeFailed]

\* Where the thread was when cancellation was first requested: before the
\* first stop check of the loop, inside a job before the worker's pre-start
\* check, in the worker before the spawn, between the spawn and the resolution
\* of a job, or elsewhere; and the job it was at.
StopPhase(pc, n) ==
    [ phase |-> IF pc \in {"start", "loop"} /\ n = 0 THEN "before loop"
                ELSE IF pc \in {"mkdir", "pv_check"} THEN "before worker"
                ELSE IF pc \in {"pv_probe", "pv_spawn"} THEN "before spawn"
                ELSE IF pc \in {"pv_read", "pv_wait", "pv_resolve"} THEN "mid-stream"
                ELSE "other",
      job |-> n + 1 ]

NoStop == [phase |-> "", job |-> 0]

DefaultConfig ==
    [ equalizer_bands |-> DEFAULT_EQUALIZER_BANDS,
      speechnorm |-> DEFAULT_SPEECHNORM,
      output_folder |-> DEFAULT_OUTPUT_FOLDER,
      output_suffix |-> DEFAULT_OUTPUT_SUFFIX ]

\* The entry widgets as setup_ui fills them from the configuration.
DefaultForm ==
    [ folder |-> DEFAULT_OUTPUT_FOLDER, suffix |-> DEFAULT_OUTPUT_SUFFIX,
      g |-> DEFAULT_EQUALIZER_BANDS[1].g, e |-> DEFAULT_SPEECHNORM.e ]

NoProcessor ==
    [ made |-> FALSE,
      equalizer_bands |-> << >>,
      speechnorm_params |-> DEFAULT_SPEECHNORM,
      output_folder |-> "",
      output_suffix |-> "" ]

\* Lists add_to_list can have built: no path twice.
Lists(files, n) ==
    { l \in UNION { [1..k -> files] : k \in 0..n } :
        \A a, b \in 1..Len(l) : a # b => l[a] # l[b] }

\* The state when the user turns to the "Start Processing" button, in given
\* surroundings: files may have been added already.
InitIn(env) ==
    /\ environment = env
    /\ file_list \in Lists(environment.files, MaxListed)
    /\ entries = DefaultForm
    /\ config_vars = DefaultConfig
    /\ processor = NoProcessor
    /\ processing_thread = "none"
    /\ log_queue = << >>
    \* setup_drag_and_drop: "[DEBUG] Drag-and-drop enabled"
    /\ debug_queue = <<Ev("dnd", 0, 0)>>
    /\ progress_queue = << >>
    /\ process_btn = "normal"
    /\ stop_btn = "disabled"
    /\ ui_pc = "idle"
    /\ ui_error = FALSE
    /\ stop_event = FALSE
    /\ current_process = 0
    /\ i = 0
    /\ total_files = 0
    /\ input_path = NoFile
    /\ output_folder = NoDir
    /\ output_path = NoPath
    /\ audio = DefaultAudio
    /\ fs \in { x \in SUBSET Outputs(environment.existing) :
                    Cardinality(x) <= MaxExisting }
    /\ dirs = { f.dir : f \in fs }
    /\ procs = << >>
    /\ tools_ok \in BOOLEAN
    /\ run = 0
    /\ batch = << >>
    /\ existed = {}
    /\ touched = FALSE
    /\ raised = FALSE
    /\ state = [j \in Jobs |-> "Pending"]
    /\ info = [j \in Jobs |-> NoInfo]
    /\ emitted = << >>
    /\ overall = << >>
    /\ sentinels = 0
    /\ history = [ put |-> [log |-> << >>, debug |-> <<Ev("dnd", 0, 0)>>, progress |-> << >>],
                   got |-> [log |-> << >>, debug |-> << >>, progress |-> << >>] ]
    /\ stopAt = NoStop
    /\ ops = 0

Init == InitIn(MainEnvironment)

----------------------------------------------------------------------------
\* Handlers of the Tk main loop.  One handler runs at a time (ui_pc = "idle"
\* between handlers); the thread and the processes run beside them.

InList(x, list) == \E n \in 1..Len(list) : list[n] = x

\* Appending whatever is handed over.
AddAllUnchecked(list, files) == list \o files

RECURSIVE AddAll(_, _)
\* add_to_list: append each path that is not in the list yet.
AddAll(list, files) ==
    IF files = << >> THEN list
    ELSE AddAll(IF InList(Head(files), list) THEN list ELSE Append(list, Head(files)),
                Tail(files))

Drops == UNION { [1..n -> environment.offered] : n \in 1..environment.drop }

\* str(Path(f)): the path without "." components.
PathOf(f) == [parent |-> f.parent, stem |-> f.stem, ext |-> f.ext]

RECURSIVE Paths(_)
Paths(files) ==
    IF files = << >> THEN << >> ELSE <<PathOf(Head(files))>> \o Paths(Tail(files))

\* on_drop, line 432: the dropped paths with a supported extension (the
\* extensions entry keeps its default).
Supported(files) == SelectSeq(files, LAMBDA f : f.ext \in DEFAULT_SUPPORTED_EXTENSIONS)

\* add_files / on_drop -> add_to_list(files)
AddToList ==
    /\ ui_pc = "idle"
    /\ ops < environment.ops
    /\ \E files \in Drops :
        \/ file_list' = AddAll(file_list, Paths(files))
        \/ file_list' = AddAll(file_list, Paths(Supported(files)))
    /\ touched' = TRUE
    /\ ops' = ops + 1
    /\ UNCHANGED <<entries, config_vars, processor, process_btn, stop_btn, ui_pc,
                   ui_error,
                   queueVars, threadVars, envVars, stop_event, current_process,
                   run, batch, existed, state, info, emitted, overall, sentinels, history,
                   raised, stopAt>>

\* clear_list
ClearList ==
    /\ ui_pc = "idle"
    /\ ops < environment.ops
    /\ file_list' = << >>
    /\ touched' = TRUE
    /\ ops' = ops + 1
    /\ UNCHANGED <<entries, config_vars, processor, process_btn, stop_btn, ui_pc,
                   ui_error,
                   queueVars, threadVars, envVars, stop_event, current_process,
                   run, batch, existed, state, info, emitted, overall, sentinels, history,
                   raised, stopAt>>

\* The user fills in the settings tab and clicks "Apply Settings":
\* apply_settings.
ApplySettings ==
    /\ ui_pc = "idle"
    /\ ops < environment.ops
    /\ \E form \in Forms :
        /\ entries' = form
        /\ config_vars' = ApplyForm(config_vars, form)
    /\ ops' = ops + 1
    /\ UNCHANGED <<file_list, processor, process_btn, stop_btn, ui_pc, ui_error,
                   queueVars, threadVars, envVars, stop_event, current_process,
                   run, batch, existed, touched, state, info, emitted, overall,
                   sentinels, history, raised, stopAt>>

\* VideoProcessor(...) as start_processing constructs it from a configuration:
\* the bands and speechnorm are copied, the folder and suffix are strings.
NewProcessor(cfg) ==
    [ made |-> TRUE,
      equalizer_bands |-> cfg.equalizer_bands,
      speechnorm_params |-> cfg.speechnorm,
      output_folder |-> cfg.output_folder,
      output_suffix |-> cfg.output_suffix ]

\* A thread object that never counts as alive.
NeverAlive(thread) == FALSE

\* Thread.is_alive(), line 451: from start() until run_processing has
\* returned.
IsAlive(thread) == thread # "none"

\* A processor that takes over the stop flag of the one before it.
KeptFlag(old) == old

\* VideoProcessor.__init__, line 73: the stop flag of a new processor.
FreshFlag(old) == FALSE

\* start_processing, from the "Start Processing" button (clickable while
\* process_btn is enabled).  It applies the settings form first.
StartProcessing ==
    /\ ui_pc = "idle"
    /\ process_btn = "normal"
    /\  LET cfg == ApplyForm(config_vars, entries)
        IN  /\ config_vars' = cfg
            /\ IF file_list = << >> \/ IsAlive(processing_thread)
               THEN UNCHANGED <<processor, process_btn, stop_btn, processing_thread,
                                stop_event, current_process, run, batch, existed,
                                touched, state, info, emitted, overall, sentinels, history, raised,
                                stopAt>>
               ELSE /\ run < environment.runs
                    /\ process_btn' = "disabled"
                    /\ stop_btn' = "normal"
                    /\ processor' = NewProcessor(cfg)
                    /\ stop_event' = FreshFlag(stop_event)
                    /\ current_process' = 0
                    /\ processing_thread' = "start"
                    /\ run' = run + 1
                    /\ batch' = file_list
                    /\ existed' = fs
                    /\ touched' = FALSE
                    /\ raised' = FALSE
                    /\ state' = [j \in Jobs |-> "Pending"]
                    /\ info' = [j \in Jobs |-> NoInfo]
                    /\ emitted' = << >>
                    /\ overall' = << >>
                    /\ sentinels' = 0
                    /\ UNCHANGED history
                    /\ stopAt' = NoStop
    /\ UNCHANGED <<file_list, entries, ui_pc, ui_error, queueVars, i, total_files,
                   input_path, output_folder, output_path, audio, envVars, ops>>

\* VideoProcessorApp.stop_processing up to VideoProcessor.stop_processing's
\* assignment of the flag (the "Stop" button, clickable while enabled).
StopClick ==
    /\ ui_pc = "idle"
    /\ stop_btn = "normal"
    /\ processor.made
    /\ log_queue' = Append(log_queue, Ev("STOPPING", 0, 0))
    /\ history' = [history EXCEPT !.put.log = Append(@, Ev("STOPPING", 0, 0))]
    /\ stop_event' = TRUE
    /\ stopAt' = IF stop_event THEN stopAt ELSE StopPhase(processing_thread, i)
    /\ ui_pc' = "stop_check"
    /\ UNCHANGED <<file_list, entries, config_vars, processor, process_btn, stop_btn,
                   ui_error, debug_queue, progress_queue, threadVars, envVars,
                   current_process, run, batch, existed, touched, state, info,
                   emitted, overall, sentinels, raised, ops>>

\* `if self._current_process:`; with no handle the handler ends after
\* disabling the button.
StopCheck ==
    /\ ui_pc = "stop_check"
    /\ IF current_process # 0
       THEN /\ ui_pc' = "stop_term"
            /\ UNCHANGED stop_btn
       ELSE /\ ui_pc' = "idle"
            /\ stop_btn' = "disabled"
    /\ UNCHANGED <<file_list, entries, config_vars, processor, process_btn, ui_error,
                   queueVars, threadVars, envVars, histVars, stop_event,
                   current_process>>

\* Popen.terminate(): a signal to a running process, nothing for one that has
\* exited.
Terminate(ps, pid) ==
    IF ps[pid].alive THEN [ps EXCEPT ![pid].term = TRUE] ELSE ps

\* `self._current_process.terminate()`: the attribute is read again.  If the
\* thread has reset it to None meanwhile the call raises AttributeError, which
\* `except OSError` does not catch: the handler ends there.
StopTerminate ==
    /\ ui_pc = "stop_term"
    /\ ui_pc' = "idle"
    /\ IF current_process = 0
       THEN /\ ui_error' = TRUE
            /\ UNCHANGED <<stop_btn, procs>>
       ELSE /\ procs' = Terminate(procs, current_process)
            /\ stop_btn' = "disabled"
            /\ UNCHANGED ui_error
    /\ UNCHANGED <<file_list, entries, config_vars, processor, process_btn, queueVars,
                   threadVars, fs, dirs, tools_ok, environment, histVars, stop_event,
                   current_process>>

IsDone(e) == e.k = PROCESSING_DONE_TOKEN

\* process_events: the three queues are drained in turn; the sentinel calls
\* on_processing_finished (lines 500-507), which enables "Start Processing"
\* and disables "Stop".
ProcessEvents ==
    /\ ui_pc = "idle"
    /\ log_queue # << >> \/ debug_queue # << >> \/ progress_queue # << >>
    /\ LET done == \E n \in 1..Len(log_queue) : IsDone(log_queue[n])
       IN  /\ process_btn' = IF done THEN "normal" ELSE process_btn
           /\ stop_btn' = IF done THEN "disabled" ELSE stop_btn
    /\ log_queue' = << >>
    /\ debug_queue' = << >>
    /\ progress_queue' = << >>
    /\ history' = [history EXCEPT !.got.log = @ \o log_queue,
                                  !.got.debug = @ \o debug_queue,
                                  !.got.progress = @ \o progress_queue]
    /\ UNCHANGED <<file_list, entries, config_vars, processor, ui_pc, ui_error, threadVars,
                   envVars, run, batch, existed, touched, state, info, emitted,
                   overall, sentinels, raised, stopAt, ops, stop_event,
                   current_process>>

----------------------------------------------------------------------------
\* The background thread: run_processing and, inside it, process_video.

putVars == <<log_queue, debug_queue, progress_queue, emitted, overall, sentinels,
             history>>

RECURSIVE Values(_)
Values(s) == IF s = << >> THEN << >> ELSE <<Head(s).v>> \o Values(Tail(s))

\* queue.put of each event of evs, in order, by the thread.  `emitted` keeps
\* the events put since the current iteration of the loop began (before),
\* `overall` the overall-progress values of the run, `sentinels` the number of
\* sentinels of the run, `history.put` everything ever put on each queue.  The
\* finally clause starts `emitted` afresh.
PutsAfter(before, evs) ==
    /\ log_queue' = log_queue \o OfChannel(evs, "log")
    /\ debug_queue' = debug_queue \o OfChannel(evs, "debug")
    /\ progress_queue' = progress_queue \o OfChannel(evs, "progress")
    /\ emitted' = before \o evs
    /\ overall' = overall \o Values(SelectSeq(evs, LAMBDA e : e.k = "overall_progress"))
    /\ sentinels' = sentinels + Len(SelectSeq(evs, LAMBDA e : IsDone(e)))
    /\ history' = [history EXCEPT !.put.log = @ \o OfChannel(evs, "log"),
                                  !.put.debug = @ \o OfChannel(evs, "debug"),
                                  !.put.progress = @ \o OfChannel(evs, "progress")]

Puts(evs) == PutsAfter(emitted, evs)

\* The job of the iteration the thread is in.
Job == i + 1

\* Line 494, after the if/else of one iteration.
OverallProgress == <<On("progress", "overall_progress", i + 1, 0)>>

\* Whether the folder exists: an output file was in it at the start, or mkdir
\* made it.
DirExists(dir) == dir \in dirs

\* A loop that does not look at the stop flag.
LoopIgnoresStop == i < Len(file_list)

\* Lines 480-482: the iterator of the live list has a next element and no
\* stop was requested.
LoopContinues == i < Len(file_list) /\ ~stop_event

\* A check that finds no file.
ExistsNever(path) == FALSE

\* Line 490: output_path.exists()
Exists(path) == path \in fs

\* run_processing, line 479
ThreadStart ==
    /\ processing_thread = "start"
    /\ total_files' = Len(file_list)
    /\ i' = 0
    /\ processing_thread' = "loop"
    /\ UNCHANGED <<appVars, queueVars, input_path, output_folder, output_path,
                   audio, envVars, histVars, stop_event, current_process>>

\* Lines 480-484: the next element of the live list, the stop check, the
\* "Starting file" message and the reset of the file progress.
LoopTop ==
    /\ processing_thread = "loop"
    /\ IF LoopContinues
       THEN /\ input_path' = file_list[i + 1]
            /\ PutsAfter(<< >>, <<On("log", "Starting", i + 1, total_files),
                                  On("progress", "file_progress", 0, 0)>>)
            /\ processing_thread' = "mkdir"
       ELSE /\ processing_thread' = "finally"
            /\ UNCHANGED <<input_path, putVars>>
    /\ UNCHANGED <<appVars, i, total_files, output_folder, output_path, audio,
                   envVars, run, batch, existed, touched, raised, state, info, stopAt, ops, stop_event,
                   current_process>>

\* Lines 485-494: the folder and the output path from the live
\* configuration; mkdir, which succeeds if the folder exists and otherwise
\* succeeds or raises (lines 495-496 catch what it raises); and the
\* skip-if-exists decision.
PrepareOutput ==
    /\ processing_thread = "mkdir"
    /\ LET dir == OutputFolder(input_path, config_vars.output_folder)
           path == OutputPath(dir, input_path, config_vars.output_suffix)
       IN  /\ output_folder' = dir
           /\ \E ok \in BOOLEAN :
                /\ DirExists(dir) => ok
                /\ IF ~ok
                   THEN /\ Puts(<<On("log", "CRITICAL", i + 1, 0)>>)
                        /\ raised' = TRUE
                        /\ processing_thread' = "finally"
                        /\ UNCHANGED <<output_path, dirs, info, state, i>>
                   ELSE /\ dirs' = dirs \cup {dir}
                        /\ UNCHANGED raised
                        /\ output_path' = path
                        /\ info' = [info EXCEPT ![Job].out = path]
                        /\ IF Exists(path)
                           THEN /\ Puts(<<On("log", "SKIP", i + 1, 0)>> \o OverallProgress)
                                /\ state' = [state EXCEPT ![Job] = "Skipped"]
                                /\ i' = i + 1
                                /\ processing_thread' = "loop"
                           ELSE /\ processing_thread' = "pv_check"
                                /\ UNCHANGED <<putVars, state, i>>
    /\ UNCHANGED <<appVars, total_files, input_path, audio, fs, procs, tools_ok,
                   environment, run, batch, existed, touched, stopAt, ops, stop_event,
                   current_process>>

\* process_video, lines 114-115: the pre-start check.
PreStartCheck ==
    /\ processing_thread = "pv_check"
    /\ IF stop_event
       THEN /\ state' = [state EXCEPT ![Job] = "Stopped"]
            /\ Puts(OverallProgress)
            /\ i' = i + 1
            /\ processing_thread' = "loop"
       ELSE /\ processing_thread' = "pv_probe"
            /\ UNCHANGED <<putVars, state, i>>
    /\ UNCHANGED <<appVars, total_files, input_path, output_folder, output_path,
                   audio, envVars, run, batch, existed, touched, raised, info, stopAt, ops, stop_event,
                   current_process>>

\* Lines 117-128: the probe (ffprobe raises when it is not installed), the
\* filter chain from the processor's own copy of the settings, the
\* "[PROCESSING]" message and the command line.
Probe ==
    /\ processing_thread = "pv_probe"
    /\ \E result \in ProbeResults :
        /\ IF tools_ok THEN result \in environment.probes ELSE ~result.ok
        /\ audio' = get_audio_info(result)
        /\ Puts(ProbeEvents(result, i + 1)
                    \o <<On("log", "PROCESSING", i + 1, 0),
                         On("debug", "Command", i + 1, 0)>>)
        /\ info' = [info EXCEPT ![Job].probes = @ + 1,
                                ![Job].probe = result,
                                ![Job].file = input_path,
                                ![Job].chain = build_audio_filter(processor)]
    /\ state' = [state EXCEPT ![Job] = "Probing"]
    /\ processing_thread' = "pv_spawn"
    /\ UNCHANGED <<appVars, i, total_files, input_path, output_folder,
                   output_path, envVars, run, batch, existed, touched, raised, stopAt, ops, stop_event,
                   current_process>>

\* An except clause that reports to the log only.
CrashLogOnly == <<On("log", "CRASH", i + 1, 0)>>

\* The two events of the except clause, lines 166-169.
Crash == <<On("debug", "Process crash", i + 1, 0), On("log", "CRASH", i + 1, 0)>>

\* A started ffmpeg.  It ends by itself, or only once it is asked to
\* (self_exit).
NewProcess(self_exit) ==
    [ out |-> output_path, alive |-> TRUE, pipe |-> << >>, written |-> 0,
      self_exit |-> self_exit, term |-> FALSE, returncode |-> 0 ]

\* A running process whose handle was dropped: its pipe is closed with the
\* handle, what it writes from then on reaches nobody, and a write to the
\* closed pipe can end it.
Unread(p) == [p EXCEPT !.pipe = << >>, !.written = environment.nlines, !.self_exit = TRUE]

\* The processes once only `handle` is referred to: the exited ones are
\* gone, the running ones are left to themselves.
Reap(ps, handle) ==
    LET keep == { pid \in DOMAIN ps : ps[pid].alive \/ pid = handle }
    IN  [pid \in keep |-> IF pid = handle THEN ps[pid] ELSE Unread(ps[pid])]

FreePid == CHOOSE pid \in 1..(Cardinality(DOMAIN procs) + 1) : pid \notin DOMAIN procs

\* Lines 130-140: Popen.  With ffmpeg missing it raises, and lines 166-171
\* and 494 follow; otherwise the process runs and the handle is kept.
Spawn ==
    /\ processing_thread = "pv_spawn"
    /\ IF ~tools_ok
       THEN /\ Puts(Crash \o OverallProgress)
            /\ state' = [state EXCEPT ![Job] = "Failed"]
            /\ current_process' = 0
            /\ i' = i + 1
            /\ audio' = DefaultAudio
            /\ processing_thread' = "loop"
            /\ UNCHANGED <<procs, info>>
       ELSE /\ \E self_exit \in BOOLEAN :
                procs' = (FreePid :> NewProcess(self_exit)) @@ procs
            /\ current_process' = FreePid
            /\ info' = [info EXCEPT ![Job].spawns = @ + 1]
            /\ state' = [state EXCEPT ![Job] = "Running"]
            /\ processing_thread' = "pv_read"
            /\ UNCHANGED <<putVars, i, audio>>
    /\ UNCHANGED <<appVars, total_files, input_path, output_folder, output_path,
                   fs, dirs, tools_ok, environment, run, batch, existed, touched, raised, stopAt, ops, stop_event>>

\* Lines 142-150: one iteration of `for line in stdout`.  The read returns
\* when a line is there, or at end of file once the process has exited.
ReadLine ==
    /\ processing_thread = "pv_read"
    /\ LET p == procs[current_process]
       IN  \/ /\ p.pipe # << >>
              /\ procs' = [procs EXCEPT ![current_process].pipe = Tail(@)]
              /\ IF stop_event
                 THEN /\ processing_thread' = "pv_wait"
                      /\ UNCHANGED putVars
                 ELSE /\ Puts(HandleLine(Head(p.pipe)))
                      /\ UNCHANGED processing_thread
           \/ /\ p.pipe = << >>
              /\ ~p.alive
              /\ processing_thread' = "pv_wait"
              /\ UNCHANGED <<procs, putVars>>
    /\ UNCHANGED <<appVars, i, total_files, input_path, output_folder,
                   output_path, audio, fs, dirs, tools_ok, environment, run, batch, existed, touched, raised, state, info,
                   stopAt, ops, stop_event, current_process>>

\* The read of the stream raises (an OSError from the pipe, or MemoryError
\* on a line too long; undecodable bytes do not raise, errors='replace'):
\* lines 166-171 and 494.  Nothing on this path waits for the process or
\* ends it.
ReadError ==
    /\ processing_thread = "pv_read"
    /\ Puts(Crash \o OverallProgress)
    /\ state' = [state EXCEPT ![Job] = "Failed"]
    /\ current_process' = 0
    /\ procs' = Reap(procs, 0)
    /\ i' = i + 1
    /\ audio' = DefaultAudio
    /\ processing_thread' = "loop"
    /\ UNCHANGED <<appVars, total_files, input_path, output_folder, output_path,
                   fs, dirs, tools_ok, environment, run, batch, existed, touched, raised, info, stopAt, ops, stop_event>>

\* Line 152: wait() returns once the process has exited.
Wait ==
    /\ processing_thread = "pv_wait"
    /\ ~procs[current_process].alive
    /\ processing_thread' = "pv_resolve"
    /\ UNCHANGED <<appVars, queueVars, i, total_files, input_path, output_folder,
                   output_path, audio, envVars, histVars, stop_event,
                   current_process>>

\* A worker that takes every exit for a success.
OutcomeAlwaysSuccess(stopped, rc, n) ==
    IF stopped
    THEN [state |-> "Stopped", events |-> <<On("log", "STOPPED", n, 0)>>]
    ELSE [state |-> "Succeeded",
          events |-> <<On("log", "SUCCESS", n, 0),
                       On("progress", "file_progress", 100, 0)>>]

\* A worker that reports a success without the final progress value.
OutcomeNoFinalProgress(stopped, rc, n) ==
    IF stopped
    THEN [state |-> "Stopped", events |-> <<On("log", "STOPPED", n, 0)>>]
    ELSE IF rc = 0
    THEN [state |-> "Succeeded", events |-> <<On("log", "SUCCESS", n, 0)>>]
    ELSE [state |-> "Failed", events |-> <<On("log", "FAILED", n, rc)>>]

\* Lines 154-164: how job n ends once wait() has returned rc, and the events
\* that says so.
Outcome(stopped, rc, n) ==
    IF stopped
    THEN [state |-> "Stopped", events |-> <<On("log", "STOPPED", n, 0)>>]
    ELSE IF rc = 0
    THEN [state |-> "Succeeded",
          events |-> <<On("log", "SUCCESS", n, 0),
                       On("progress", "file_progress", 100, 0)>>]
    ELSE [state |-> "Failed", events |-> <<On("log", "FAILED", n, rc)>>]

\* Lines 154-164, the finally clause (171) and line 494.
Resolve ==
    /\ processing_thread = "pv_resolve"
    /\ LET end == Outcome(stop_event, procs[current_process].returncode, i + 1)
       IN  /\ Puts(end.events \o OverallProgress)
           /\ state' = [state EXCEPT ![Job] = end.state]
    /\ current_process' = 0
    /\ procs' = Reap(procs, 0)
    /\ i' = i + 1
    /\ audio' = DefaultAudio
    /\ processing_thread' = "loop"
    /\ UNCHANGED <<appVars, total_files, input_path, output_folder, output_path,
                   fs, dirs, tools_ok, environment, run, batch, existed, touched, raised, info, stopAt, ops, stop_event>>

\* A finally clause that puts nothing.
FinallySilent ==
    /\ processing_thread = "finally"
    /\ processing_thread' = "exit"
    /\ UNCHANGED <<appVars, queueVars, i, total_files, input_path, output_folder,
                   output_path, audio, envVars, histVars, stop_event,
                   current_process>>

\* Line 498: the finally clause of run_processing.
Finally ==
    /\ processing_thread = "finally"
    /\ PutsAfter(<< >>, <<On("log", PROCESSING_DONE_TOKEN, 0, 0)>>)
    /\ processing_thread' = "exit"
    /\ UNCHANGED <<appVars, i, total_files, input_path, output_folder,
                   output_path, audio, envVars, run, batch, existed, touched, raised, state, info, stopAt,
                   ops, stop_event, current_process>>

\* run_processing has returned: the thread is no longer alive.
ThreadExit ==
    /\ processing_thread = "exit"
    /\ processing_thread' = "none"
    /\ UNCHANGED <<appVars, queueVars, i, total_files, input_path, output_folder,
                   output_path, audio, envVars, histVars, stop_event,
                   current_process>>

----------------------------------------------------------------------------
\* The ffmpeg processes.

\* The process writes one more line to the merged stream.
ProcWrite(pid) ==
    /\ procs[pid].alive
    /\ procs[pid].written < environment.nlines
    /\ \E id \in environment.lines :
        procs' = [procs EXCEPT ![pid].pipe = Append(@, id),
                               ![pid].written = @ + 1]
    /\ UNCHANGED <<appVars, queueVars, threadVars, fs, dirs, tools_ok, environment, histVars,
                   stop_event, current_process>>

\* What is left of a process that has exited: the exit code and the output
\* not read yet.
Exited(p, rc) ==
    [ out |-> p.out, alive |-> FALSE, pipe |-> p.pipe, written |-> 0,
      self_exit |-> FALSE, term |-> FALSE, returncode |-> rc ]

\* The process exits: by itself if it is one that does, or after terminate().
\* It leaves its output file behind (-y overwrites) if it got as far as
\* opening it, which exit code 0 implies.
ProcExit(pid) ==
    /\ procs[pid].alive
    /\ procs[pid].self_exit \/ procs[pid].term
    /\ \E rc \in ExitCodes, opened \in BOOLEAN :
        /\ rc = 0 => opened
        /\ procs' = Reap([procs EXCEPT ![pid] = Exited(@, rc)], current_process)
        /\ fs' = IF opened THEN fs \cup {procs[pid].out} ELSE fs
    /\ UNCHANGED <<appVars, queueVars, threadVars, dirs, tools_ok, environment, histVars,
                   stop_event, current_process>>

----------------------------------------------------------------------------
\* The orchestrator, the worker, the handlers that reach them and the
\* processes.  The consumer process_events is left to SpecApp: it changes
\* only the queues and the two buttons, and without it the queues hold
\* everything that was put, "Start Processing" stays disabled after the one
\* run and "Stop" stays clickable after its end, as it is until the consumer
\* has handled the sentinel.
Next ==
    \/ AddToList
    \/ ClearList
    \/ ApplySettings
    \/ StartProcessing
    \/ StopClick
    \/ StopCheck
    \/ StopTerminate
    \/ ThreadStart
    \/ LoopTop
    \/ PrepareOutput
    \/ PreStartCheck
    \/ Probe
    \/ Spawn
    \/ ReadLine
    \/ ReadError
    \/ Wait
    \/ Resolve
    \/ Finally
    \/ ThreadExit
    \/ \E pid \in DOMAIN procs : ProcWrite(pid)
    \/ \E pid \in DOMAIN procs : ProcExit(pid)

Spec == Init /\ [][Next]_vars

\* The steps of the background thread.
Thread ==
    \/ ThreadStart
    \/ LoopTop
    \/ PrepareOutput
    \/ PreStartCheck
    \/ Probe
    \/ Spawn
    \/ ReadLine
    \/ Wait
    \/ Resolve
    \/ Finally
    \/ ThreadExit

\* One batch of one fresh file with the tools installed.
InitOne ==
    /\ Init
    /\ Len(file_list) = 1
    /\ fs = {}
    /\ tools_ok

\* The scheduling the platform gives: the thread takes its next step when it
\* has one (a read that raises is not owed), a handler of the main loop that
\* has begun runs to its end, and a process ends when it is one that ends by
\* itself or once it was asked to.
FairSpec ==
    /\ InitOne
    /\ [][Next]_vars
    /\ WF_vars(Thread)
    /\ WF_vars(StopCheck)
    /\ WF_vars(StopTerminate)
    /\ WF_vars(\E pid \in DOMAIN procs : ProcExit(pid))

\* The same with the consumer: the main loop also runs process_events, which
\* empties the queues.
NextApp == Next \/ ProcessEvents

SpecApp == InitOne /\ [][NextApp]_vars

----------------------------------------------------------------------------
\* Properties.

\* The run has ended: run_processing is past its finally clause.
Finished == run > 0 /\ processing_thread \in {"exit", "none"}

Sentinel == On("log", PROCESSING_DONE_TOKEN, 0, 0)

\* C1: a run has put no sentinel while run_processing is at work and exactly
\* one once it is past its finally clause, whichever way the loop was left,
\* and the sentinel is the last event the thread has put on any queue.
C1_OneSentinelLast ==
    /\ sentinels = IF Finished THEN 1 ELSE 0
    /\ Finished => emitted = <<Sentinel>>

\* A run that ended through the top-level except clause and has its sentinel.
C1_Witness == Finished /\ raised /\ sentinels = 1

\* The job the thread was at when stop was requested has ended Stopped.
StoppedJobStopped == stopAt.job \in Jobs /\ state[stopAt.job] = "Stopped"

\* C2: every started batch eventually puts its sentinel, and after a stop
\* request the job the thread was at is eventually Stopped.
C2_EventuallySentinel ==
    /\ [](run > 0 => <>(sentinels = 1))
    /\ [](stopAt.phase \in {"before spawn", "mid-stream"} => <>StoppedJobStopped)

\* The thread waits on a process that ends only when asked to and that nobody
\* has asked or can ask: stop was requested before the handle was stored, and
\* the "Stop" button is disabled.
C2_Blocked ==
    /\ processing_thread = "pv_wait"
    /\ procs[current_process].alive
    /\ ~procs[current_process].self_exit
    /\ ~procs[current_process].term
    /\ stop_event
    /\ stop_btn = "disabled"
    /\ ui_pc = "idle"

\* The jobs of the batch as it was when the run was started.
BatchJobs == 1..Len(batch)

\* The output path of job j of the batch under the settings the run was
\* started with (the copies the processor holds).
SnapshotPath(j) ==
    OutputPath(OutputFolder(batch[j], processor.output_folder), batch[j],
               processor.output_suffix)

\* Neither the prober nor the worker's spawn has run for job j.
Untouched(j) == info[j].probes = 0 /\ info[j].spawns = 0

\* C3 as stated, for the runs in which the list was left alone and nothing
\* was raised at the top level: once the run has ended, every job of the
\* batch whose output path existed before the run is Skipped and was never
\* probed or spawned.
C3_ExistingEndSkipped ==
    Finished /\ ~touched /\ ~raised =>
        \A j \in BatchJobs :
            SnapshotPath(j) \in existed => state[j] = "Skipped" /\ Untouched(j)

\* C3 amended: a job whose output path, as the orchestrator derived it on
\* reaching the job, existed before the run is Skipped and was never probed
\* or spawned; a job the orchestrator has not reached is Pending and was
\* never probed or spawned.
C3_ExistingNeverWorked ==
    \A j \in Jobs :
        /\ info[j].out # NoPath /\ info[j].out \in existed =>
                state[j] = "Skipped" /\ Untouched(j)
        /\ info[j].out = NoPath => state[j] = "Pending" /\ Untouched(j)

\* The second job was skipped for its existing output after the first was
\* transcoded.
C3_Witness ==
    /\ Finished
    /\ state[1] = "Succeeded"
    /\ info[2].out \in existed
    /\ state[2] = "Skipped"

\* C4: a job that was between spawn and resolution when stop was requested
\* never ends Succeeded or Failed.
C4_MidStreamStopped ==
    stopAt.phase = "mid-stream" => state[stopAt.job] \in {"Running", "Stopped"}

\* C5: whenever the thread is outside process_video's stretch from spawn to
\* return, no ffmpeg process is running.
C5_NoProcessLeft ==
    processing_thread \notin {"pv_read", "pv_wait", "pv_resolve"} =>
        \A pid \in DOMAIN procs : ~procs[pid].alive

\* Jobs after job j are Pending and nothing was decided for them.
LaterPending(j) == \A k \in Jobs : k > j => state[k] = "Pending" /\ info[k] = NoInfo

\* C6 as stated: after a stop requested before the first stop check of the
\* loop, the run ends with the first job Stopped and the others Pending.
C6_FirstStopped ==
    Finished /\ stopAt.phase = "before loop" =>
        state[1] = "Stopped" /\ LaterPending(1)

\* C6 amended: after a stop requested before the first stop check of the
\* loop every job stays Pending, the first included, with no probe, spawn or
\* skip decision and no overall-progress event; after a stop requested inside
\* the first job before the worker's pre-start check, that job is Stopped or
\* Skipped (or Pending, not yet resolved or abandoned), never probed or
\* spawned, and the later jobs stay Pending.
C6_StopBeforeStart ==
    /\ stopAt.phase = "before loop" =>
            /\ \A j \in Jobs : state[j] = "Pending" /\ info[j] = NoInfo
            /\ overall = << >>
            /\ procs = << >>
    /\ stopAt.phase = "before worker" /\ stopAt.job = 1 =>
            /\ state[1] \in {"Pending", "Skipped", "Stopped"}
            /\ Untouched(1)
            /\ LaterPending(1)
            /\ procs = << >>

\* A run of two jobs that ended after a stop requested before the loop.
C6_Witness == Finished /\ stopAt.phase = "before loop" /\ Len(batch) = 2

\* C7: a run that ended with no stop requested and the list untouched has
\* left no job Pending that comes after the job the thread was last at.
C7_LaterJobsProcessed ==
    Finished /\ ~stop_event /\ ~touched =>
        \A j \in BatchJobs : j > i + 1 => state[j] # "Pending"

\* The step is the thread leaving the spawn or the read loop by an
\* exception: a spawn without ffmpeg, or any exit from the read loop other
\* than to wait().
ExceptionStep ==
    \/ /\ processing_thread = "pv_spawn"
       /\ processing_thread' # "pv_spawn"
       /\ ~tools_ok \/ processing_thread' # "pv_read"
    \/ /\ processing_thread = "pv_read"
       /\ processing_thread' \notin {"pv_read", "pv_wait"}

\* The events the step has put.
NewEvents == SubSeq(emitted', Len(emitted) + 1, Len(emitted'))

\* C8: an exception in the spawn or the read loop makes the job Failed, puts
\* exactly one debug event and one log event (the crash report), and returns
\* to the loop with nothing raised at the top level; without the tools no
\* process is ever spawned, no job runs or succeeds, every job of an
\* undisturbed run is Skipped or Failed, and the run has its sentinel.
C8_ExceptionsCaught ==
    /\ [][ExceptionStep =>
            /\ state'[Job] = "Failed"
            /\ processing_thread' = "loop"
            /\ i' = i + 1
            /\ raised' = raised
            /\ SelectSeq(NewEvents, LAMBDA e : e.ch = "debug")
                   = <<On("debug", "Process crash", Job, 0)>>
            /\ SelectSeq(NewEvents, LAMBDA e : e.ch = "log")
                   = <<On("log", "CRASH", Job, 0)>>]_vars
    /\ [](~tools_ok =>
            /\ procs = << >>
            /\ \A j \in Jobs : state[j] \notin {"Running", "Succeeded"}
            /\ Finished => sentinels = 1
            /\ Finished /\ ~stop_event /\ ~raised /\ ~touched =>
                    \A j \in BatchJobs : state[j] \in {"Skipped", "Failed"})

\* Without the tools, a run of two jobs ended with both Failed and the
\* sentinel put.
C8_Witness ==
    /\ Finished
    /\ ~tools_ok
    /\ state[1] = "Failed"
    /\ state[2] = "Failed"
    /\ sentinels = 1

\* C9: a run of n jobs that ended with no stop requested and no exception at
\* the top level has put the overall-progress values 1..n, in order.
C9_OverallProgress ==
    Finished /\ ~stop_event /\ ~raised =>
        overall = [k \in BatchJobs |-> k]

\* C10: the output path and the filter chain of every job of the batch are
\* those the settings of the start of the run give.
C10_SnapshotConfig ==
    \A j \in BatchJobs :
        /\ info[j].out # NoPath => info[j].out = SnapshotPath(j)
        /\ info[j].chain # << >> => info[j].chain = build_audio_filter(processor)

\* C11: the running batch works on the list as it was at the start: the total
\* it announces is the length of that list, the job it is at is a job of that
\* list with that list's file, and a run that ended with no stop requested
\* and nothing raised has gone through all of it and no further.
C11_ListOwnedByRun ==
    run > 0 =>
        /\ processing_thread # "start" => total_files = Len(batch)
        /\ processing_thread \in {"mkdir", "pv_check", "pv_probe", "pv_spawn",
                                  "pv_read", "pv_wait", "pv_resolve"} =>
                Job \in BatchJobs /\ input_path = batch[Job]
        /\ Finished /\ ~stop_event /\ ~raised => i = Len(batch)

\* The ffmpeg processes that are running.
Alive == { pid \in DOMAIN procs : procs[pid].alive }

\* C12: at most one ffmpeg process spawned by the program is running.
C12_OneProcessAtATime == Cardinality(Alive) <= 1

\* C13: no stop request ends in an exception.
C13_StopNeverRaises == ~ui_error

-----------------------------------------------------------------------------
\* The prober on every kind of ffprobe output: one file, ffprobe answering
\* with any of ProbeResults.
ProbeEnvironment ==
    [ MainEnvironment EXCEPT !.files = { f \in Files : f.stem = "a" /\ f.ext = ".mp4" },
                             !.offered = { d \in Offered : d.stem = "a" /\ d.ext = ".mp4"
                                                            /\ d.how = "plain" },
                             !.existing = {},
                             !.probes = ProbeResults ]

InitProbe == InitIn(ProbeEnvironment) /\ Len(file_list) = 1

SpecProbe == InitProbe /\ [][Next]_vars

\* What get_audio_info had captured when the thread is about to spawn ffmpeg.
Probed == info[Job].probe

AfterProbe == processing_thread = "pv_spawn"

\* C14 as stated: a probe that throws or whose output is malformed (not
\* exactly a codec and a decimal bit rate) yields exactly ("aac", "192k").
C14_FlawGivesDefault ==
    AfterProbe /\ ~WellFormed(Probed) => audio = DefaultAudio

\* C14: a probe that throws yields exactly ("aac", "192k"); output with a
\* flaw degrades field by field (the codec is the first line if there is one,
\* else "aac"; the bit rate is "192k" unless the second line is a number, and
\* a second line that isdigit accepts but int rejects gives the whole
\* default); and the probe step never ends in the thread's except clause.
C14_ProbeDegrades ==
    /\ [](AfterProbe =>
            LET lines == StripLines(Probed.stdout)
            IN  /\ ~Probed.ok => audio = DefaultAudio
                /\ Probed.ok /\ Len(lines) = 0 => audio = DefaultAudio
                /\ Probed.ok /\ Len(lines) > 1 /\ IsDigit(lines[2]) /\ ~IsDecimal(lines[2])
                        => audio = DefaultAudio
                /\ Probed.ok /\ Len(lines) = 1
                        => audio = [codec |-> lines[1], kbps |-> 192, unit |-> "k"]
                /\ Probed.ok /\ Len(lines) > 1 /\ ~IsDigit(lines[2])
                        => audio = [codec |-> lines[1], kbps |-> 192, unit |-> "k"]
                /\ Probed.ok /\ Len(lines) > 1 /\ IsDecimal(lines[2])
                        => audio = [codec |-> lines[1],
                                    kbps |-> IntOf(lines[2]) \div 1000, unit |-> "k"])
    /\ [][processing_thread = "pv_probe" /\ processing_thread' # "pv_probe" =>
            processing_thread' = "pv_spawn" /\ raised' = raised]_vars

\* ffprobe printed a codec and "N/A": the codec is kept, the bit rate is the
\* default.
C14_Witness ==
    /\ AfterProbe
    /\ Probed = [ok |-> TRUE, stdout |-> << <<"a","c","3">>, <<"N","/","A">> >>]
    /\ audio = [codec |-> <<"a","c","3">>, kbps |-> 192, unit |-> "k"]

-----------------------------------------------------------------------------
\* The filter chain of any configuration: a VideoProcessor is constructed
\* from a configuration of up to MaxBands bands, then asked for its chain.
Configurations ==
    { [ equalizer_bands |-> bands, speechnorm |-> sn,
        output_folder |-> DEFAULT_OUTPUT_FOLDER,
        output_suffix |-> DEFAULT_OUTPUT_SUFFIX ] :
      bands \in UNION { [1..k -> { DEFAULT_EQUALIZER_BANDS[n] : n \in 1..3 }] :
                        k \in 0..MaxBands },
      sn \in { DEFAULT_SPEECHNORM, [DEFAULT_SPEECHNORM EXCEPT !.e = "12.5"] } }

\* VideoProcessor(bands, speechnorm, folder, suffix, queues...).
Construct ==
    /\ processor = NoProcessor
    /\ \E cfg \in Configurations : processor' = NewProcessor(cfg)
    /\ UNCHANGED <<file_list, entries, config_vars, process_btn, stop_btn, ui_pc,
                   ui_error, queueVars, threadVars, envVars, histVars, stop_event,
                   current_process>>

\* processor.build_audio_filter(), its result kept as the chain of job 1.
BuildFilter ==
    /\ processor # NoProcessor
    /\ info[1].chain = << >>
    /\ info' = [info EXCEPT ![1].chain = build_audio_filter(processor)]
    /\ UNCHANGED <<appVars, queueVars, threadVars, envVars, stop_event,
                   current_process, run, batch, existed, touched, state, emitted,
                   overall, sentinels, history, raised, stopAt, ops>>

NextFilter == Construct \/ BuildFilter

SpecFilter == Init /\ [][NextFilter]_vars

\* C15: the chain is the clause of band 1, ..., the clause of band k and one
\* speechnorm clause, k+1 clauses in that order joined with ","; and asking
\* for the chain leaves the processor's configuration as it was.
C15_BandsInOrder ==
    /\ [](info[1].chain # << >> =>
            LET bands == processor.equalizer_bands
                sn == processor.speechnorm_params
                k == Len(bands)
                clauses ==
                    [ j \in 1..(k + 1) |->
                        IF j <= k
                        THEN <<"equalizer", "f", bands[j].f, "t", bands[j].t,
                               "w", bands[j].w, "g", bands[j].g>>
                        ELSE <<"speechnorm", "e", sn.e, "r", sn.r, "l", sn.l>> ]
            IN  /\ info[1].chain = Join(clauses, ",")
                /\ Cardinality({ n \in 1..Len(info[1].chain) : info[1].chain[n] = "," }) = k)
    /\ [][info[1].chain' # info[1].chain => processor' = processor]_vars

\* A chain was built from two different bands, the second one first in the
\* configuration.
C15_Witness ==
    /\ info[1].chain # << >>
    /\ Len(processor.equalizer_bands) = 2
    /\ processor.equalizer_bands[1] = DEFAULT_EQUALIZER_BANDS[2]
    /\ processor.equalizer_bands[2] = DEFAULT_EQUALIZER_BANDS[1]
    /\ info[1].chain[3] = DEFAULT_EQUALIZER_BANDS[2].f

-----------------------------------------------------------------------------
\* The intake alone: from an empty list, up to MaxIntakeOps dialogs, drops
\* and clears, a dialog or drop handing over up to MaxIntakeDrop paths in any
\* spelling, the same path twice and files that are no videos included.
IntakeEnvironment ==
    [ MainEnvironment EXCEPT !.files = Files,
                             !.offered = Offered,
                             !.ops = MaxIntakeOps,
                             !.drop = MaxIntakeDrop ]

InitIntake == InitIn(IntakeEnvironment) /\ file_list = << >>

NextIntake == AddToList \/ ClearList

SpecIntake == InitIntake /\ [][NextIntake]_vars

NoDuplicates(list) ==
    \A m, n \in 1..Len(list) : list[m] = list[n] => m = n

\* Where x comes first in list.
FirstIndex(x, list) ==
    CHOOSE n \in 1..Len(list) : list[n] = x /\ \A m \in 1..(n - 1) : list[m] # x

\* C16: the list never holds a path twice; an intake that changes the list
\* keeps what the list held, in place, and appends new paths in the order
\* they were first handed over (a clear empties the list).
C16_NoPathTwice ==
    /\ [](NoDuplicates(file_list))
    /\ [][file_list' # file_list /\ file_list' # << >> =>
            /\ Len(file_list') > Len(file_list)
            /\ SubSeq(file_list', 1, Len(file_list)) = file_list
            /\ \E files \in Drops :
                LET given == Paths(files)
                    new == (Len(file_list) + 1)..Len(file_list')
                IN  /\ \A n \in new : InList(file_list'[n], given)
                    /\ \A m, n \in new :
                          m < n => FirstIndex(file_list'[m], given)
                                       < FirstIndex(file_list'[n], given)]_vars

\* The same file was handed over again in another spelling, after another
\* file: the list holds it once, first.
C16_Witness ==
    /\ ops = 3
    /\ Len(file_list) = 2
    /\ file_list[1] = [parent |-> "d", stem |-> "a", ext |-> ".mp4"]
    /\ file_list[2].stem # "a"

-----------------------------------------------------------------------------
\* C17: once the stop flag is set, no step of that run probes a file, spawns
\* ffmpeg or marks a job Skipped, and a job that is Pending stays Pending.
C17_NothingStartsAfterStop ==
    [][stop_event /\ run' = run =>
        \A j \in Jobs :
            /\ info'[j].probes = info[j].probes
            /\ info'[j].spawns = info[j].spawns
            /\ state'[j] = "Skipped" => state[j] = "Skipped"
            /\ state[j] = "Pending" /\ j # Job => state'[j] = "Pending"]_vars

-----------------------------------------------------------------------------
\* The step after wait() (lines 154-164), taken with the stop flag clear.
ResolvesUnstopped ==
    processing_thread = "pv_resolve" /\ processing_thread' = "loop" /\ ~stop_event

\* The log events that say how a job ended.
TerminalKinds == {"SUCCESS", "FAILED", "STOPPED", "CRASH"}

\* The terminal log events of job n among evs.
TerminalEvents(evs, n) ==
    SelectSeq(evs, LAMBDA e : e.ch = "log" /\ e.k \in TerminalKinds /\ e.v = n)

\* C18: with no stop requested and nothing raised, the job ends Succeeded
\* with a SUCCESS log event if ffmpeg's exit code is 0 and Failed with a
\* FAILED log event carrying the exit code otherwise, and that is the one
\* terminal log event of the job.
C18_ExitCodeDecides ==
    [][ResolvesUnstopped =>
        LET rc == procs[current_process].returncode
            terminal == TerminalEvents(emitted', Job)
        IN  /\ state'[Job] = (IF rc = 0 THEN "Succeeded" ELSE "Failed")
            /\ Len(terminal) = 1
            /\ terminal[1].k = (IF rc = 0 THEN "SUCCESS" ELSE "FAILED")
            /\ rc # 0 => terminal[1].w = rc]_vars

\* A job has ended Failed on exit code 1, with no stop and nothing raised.
C18_Witness ==
    /\ ~stop_event
    /\ processing_thread = "loop"
    /\ i = 1
    /\ state[1] = "Failed"
    /\ Len(TerminalEvents(emitted, 1)) = 1
    /\ TerminalEvents(emitted, 1)[1].k = "FAILED"
    /\ TerminalEvents(emitted, 1)[1].w = 1

-----------------------------------------------------------------------------
\* The file-progress values put since the current iteration began.
FileProgress ==
    Values(SelectSeq(emitted, LAMBDA e : e.ch = "progress" /\ e.k = "file_progress"))

\* The thread is inside the iteration of a job.
InIteration ==
    processing_thread \in {"mkdir", "pv_check", "pv_probe", "pv_spawn", "pv_read",
                           "pv_wait", "pv_resolve"}

\* The iteration of job i is over and the next has not begun.
IterationOver == processing_thread = "loop" /\ i >= 1

\* C19: the file-progress events of a job the loop has started begin with 0,
\* and those of a job that ended Succeeded end with 100.
C19_ProgressFirstAndLast ==
    /\ InIteration \/ IterationOver =>
            FileProgress # << >> /\ FileProgress[1] = 0
    /\ IterationOver /\ state[i] = "Succeeded" =>
            FileProgress[Len(FileProgress)] = 100

\* A job has ended Succeeded without a progress line from ffmpeg.
C19_Witness ==
    /\ IterationOver
    /\ state[i] = "Succeeded"
    /\ FileProgress = <<0, 100>>

-----------------------------------------------------------------------------
\* The read loop on every kind of line: one file, ffmpeg writing up to
\* MaxLinesRead lines of any kind, the list left alone.
LinesEnvironment ==
    [ MainEnvironment EXCEPT !.files = { f \in Files : f.stem = "a" /\ f.ext = ".mp4" },
                             !.existing = {},
                             !.lines = LineIds,
                             !.nlines = MaxLinesRead ]

InitLines == InitIn(LinesEnvironment) /\ Len(file_list) = 1 /\ tools_ok

NextLines ==
    \/ StartProcessing
    \/ StopClick
    \/ StopCheck
    \/ StopTerminate
    \/ Thread
    \/ \E pid \in DOMAIN procs : ProcWrite(pid)
    \/ \E pid \in DOMAIN procs : ProcExit(pid)

SpecLines == InitLines /\ [][NextLines]_vars

\* The read loop takes a line off the stream and handles it (the stop flag
\* was clear when it looked).
LineRead ==
    /\ processing_thread = "pv_read"
    /\ processing_thread' = "pv_read"
    /\ Len(procs'[current_process].pipe) < Len(procs[current_process].pipe)

\* C20: a line read with no stop requested puts file-progress 50 if it
\* carries the progress-time marker, else file-progress 100 if it signals the
\* end of progress, else no progress event; if it is not blank it is appended
\* to the debug queue, once; a blank line puts nothing; nothing goes to the
\* log.
C20_LineHandling ==
    [][LineRead =>
        LET id == Head(procs[current_process].pipe)
            line == Lines[id]
            new == SubSeq(emitted', Len(emitted) + 1, Len(emitted'))
            progress == IF "out_time_ms=" \in line THEN <<Ev("file_progress", 50, 0)>>
                        ELSE IF "progress=end" \in line THEN <<Ev("file_progress", 100, 0)>>
                        ELSE << >>
            debug == IF line = {} THEN << >> ELSE <<Ev("line", id, 0)>>
        IN  /\ ~stop_event
            /\ SubSeq(emitted', 1, Len(emitted)) = emitted
            /\ Len(new) = Len(progress) + Len(debug)
            /\ progress_queue' = progress_queue \o progress
            /\ debug_queue' = debug_queue \o debug
            /\ log_queue' = log_queue]_vars

\* The lines of ffmpeg on the debug queue since the iteration began.
DebugLines ==
    Values(SelectSeq(emitted, LAMBDA e : e.ch = "debug" /\ e.k = "line"))

\* A progress-time line and then an end-of-progress line have been read.
C20_Witness ==
    /\ processing_thread = "pv_read"
    /\ ~stop_event
    /\ DebugLines = <<2, 3>>
    /\ FileProgress = <<0, 50, 100>>

-----------------------------------------------------------------------------
\* The debug events of the prober since the iteration began, by kind.
ProbeDebug ==
    LET evs == SelectSeq(emitted, LAMBDA e : e.ch = "debug"
                                    /\ e.k \in {"Audio info", "Audio info error"})
    IN  [ n \in 1..Len(evs) |-> evs[n].k ]

\* A line of digit characters that is no decimal number: int() refuses it.
Unconvertible(line) ==
    /\ line # << >>
    /\ \A n \in 1..Len(line) :
          line[n] = "^2" \/ \E d \in 1..Len(Digits) : line[n] = Digits[d]
    /\ \E n \in 1..Len(line) : line[n] = "^2"

\* C21 as stated: after a successful inspection the codec is line 1 of the
\* output ("aac" without a line 1), the bit rate is floor(b/1000) "k" if
\* line 2 is a non-negative integer b and "192k" otherwise, and one debug
\* event was put.
C21_ParsesOutputLines ==
    AfterProbe /\ Probed.ok =>
        LET lines == Probed.stdout
        IN  /\ audio.codec = (IF Len(lines) > 0 THEN lines[1] ELSE <<"a","a","c">>)
            /\ audio.kbps = (IF Len(lines) > 1 /\ IsDecimal(lines[2])
                             THEN IntOf(lines[2]) \div 1000 ELSE 192)
            /\ audio.unit = "k"
            /\ Len(ProbeDebug) = 1

\* C21: after a successful inspection, with the output taken without the
\* blank lines at either end: if line 2 is made of digits that are no
\* decimal number the result is ("aac", "192k") and two debug events were
\* put, the output and the error; otherwise the codec is line 1 ("aac"
\* without one), the bit rate is floor(b/1000) "k" if line 2 is a decimal
\* number b and "192k" if not, whatever follows line 2, and one debug event
\* was put.
C21_ParsesTrimmedOutput ==
    AfterProbe /\ Probed.ok =>
        LET lines == StripLines(Probed.stdout)
        IN  IF Len(lines) > 1 /\ Unconvertible(lines[2])
            THEN /\ audio = [codec |-> <<"a","a","c">>, kbps |-> 192, unit |-> "k"]
                 /\ ProbeDebug = <<"Audio info", "Audio info error">>
            ELSE /\ audio.codec = (IF Len(lines) > 0 THEN lines[1] ELSE <<"a","a","c">>)
                 /\ audio.kbps = (IF Len(lines) > 1 /\ IsDecimal(lines[2])
                                  THEN IntOf(lines[2]) \div 1000 ELSE 192)
                 /\ audio.unit = "k"
                 /\ ProbeDebug = <<"Audio info">>

\* ffprobe printed a codec and a second line that isdigit() accepts and
\* int() refuses.
C21_Witness ==
    /\ AfterProbe
    /\ Probed = [ok |-> TRUE, stdout |-> << <<"a","c","3">>, <<"6","^2">> >>]
    /\ audio = DefaultAudio
    /\ ProbeDebug = <<"Audio info", "Audio info error">>

-----------------------------------------------------------------------------
\* The list edited during a run: one file listed, the run started, and up to
\* MaxEdits dialogs, drops and clears of up to MaxEditDrop paths.
EditEnvironment ==
    [ MainEnvironment EXCEPT !.ops = MaxEdits, !.drop = MaxEditDrop, !.existing = {} ]

InitEdit == InitIn(EditEnvironment) /\ Len(file_list) = 1 /\ tools_ok

NextEdit ==
    \/ AddToList
    \/ ClearList
    \/ StartProcessing
    \/ Thread
    \/ \E pid \in DOMAIN procs : ProcExit(pid)

SpecEdit == InitEdit /\ [][NextEdit]_vars

Terminal == {"Succeeded", "Failed", "Stopped", "Skipped"}

\* The positions of the loop at which file f was probed in this run.
ProbedAt(f) == { j \in Jobs : info[j].probes > 0 /\ info[j].file = f }

\* C22: within a run no file is probed at more than one position of the
\* loop, no position is probed or spawned for more than once, and a job in
\* a terminal state keeps it.
C22_NoRetry ==
    /\ [](\A f \in Files : Cardinality(ProbedAt(f)) <= 1)
    /\ [](\A j \in Jobs : info[j].probes <= 1 /\ info[j].spawns <= 1)
    /\ [][\A j \in Jobs : run' = run /\ state[j] \in Terminal => state'[j] = state[j]]_vars

-----------------------------------------------------------------------------
\* process_events step by step, beside the thread: the Tk timer fires, the
\* log queue is drained one message at a time, then the debug queue, then
\* the progress queue (lines 388-408).

\* A consumer that takes the newest message first.
TakeNewest(queue) ==
    [msg |-> queue[Len(queue)], rest |-> SubSeq(queue, 1, Len(queue) - 1)]

\* queue.get_nowait() on a queue that is not empty.
Take(queue) == [msg |-> Head(queue), rest |-> Tail(queue)]

\* root.after(100, self.process_events) fires between two handlers.
PollStart ==
    /\ ui_pc = "idle"
    /\ ui_pc' = "poll_log"
    /\ UNCHANGED <<file_list, entries, config_vars, processor, process_btn, stop_btn,
                   ui_error, queueVars, threadVars, envVars, histVars, stop_event,
                   current_process>>

\* Lines 390-395: one turn of the first loop; the sentinel calls
\* on_processing_finished.
PollLog ==
    /\ ui_pc = "poll_log"
    /\ IF log_queue = << >>
       THEN /\ ui_pc' = "poll_debug"
            /\ UNCHANGED <<log_queue, history, process_btn, stop_btn>>
       ELSE LET taken == Take(log_queue)
            IN  /\ log_queue' = taken.rest
                /\ history' = [history EXCEPT !.got.log = Append(@, taken.msg)]
                /\ process_btn' = IF IsDone(taken.msg) THEN "normal" ELSE process_btn
                /\ stop_btn' = IF IsDone(taken.msg) THEN "disabled" ELSE stop_btn
                /\ UNCHANGED ui_pc
    /\ UNCHANGED <<file_list, entries, config_vars, processor, ui_error, debug_queue,
                   progress_queue, threadVars, envVars, run, batch, existed, touched,
                   state, info, emitted, overall, sentinels, raised, stopAt, ops,
                   stop_event, current_process>>

\* Lines 396-398: one turn of the second loop.
PollDebug ==
    /\ ui_pc = "poll_debug"
    /\ IF debug_queue = << >>
       THEN /\ ui_pc' = "poll_progress"
            /\ UNCHANGED <<debug_queue, history>>
       ELSE LET taken == Take(debug_queue)
            IN  /\ debug_queue' = taken.rest
                /\ history' = [history EXCEPT !.got.debug = Append(@, taken.msg)]
                /\ UNCHANGED ui_pc
    /\ UNCHANGED <<file_list, entries, config_vars, processor, process_btn, stop_btn,
                   ui_error, log_queue, progress_queue, threadVars, envVars, run,
                   batch, existed, touched, state, info, emitted, overall, sentinels,
                   raised, stopAt, ops, stop_event, current_process>>

\* Lines 399-404: one turn of the third loop; then the handler returns.
PollProgress ==
    /\ ui_pc = "poll_progress"
    /\ IF progress_queue = << >>
       THEN /\ ui_pc' = "idle"
            /\ UNCHANGED <<progress_queue, history>>
       ELSE LET taken == Take(progress_queue)
            IN  /\ progress_queue' = taken.rest
                /\ history' = [history EXCEPT !.got.progress = Append(@, taken.msg)]
                /\ UNCHANGED ui_pc
    /\ UNCHANGED <<file_list, entries, config_vars, processor, process_btn, stop_btn,
                   ui_error, log_queue, debug_queue, threadVars, envVars, run,
                   batch, existed, touched, state, info, emitted, overall, sentinels,
                   raised, stopAt, ops, stop_event, current_process>>

Poll == PollStart \/ PollLog \/ PollDebug \/ PollProgress

PollEnvironment ==
    [ MainEnvironment EXCEPT !.files = { f \in Files : f.stem = "a" /\ f.ext = ".mp4" },
                             !.existing = {} ]

InitPoll == InitIn(PollEnvironment) /\ Len(file_list) = 1 /\ tools_ok

NextPoll ==
    \/ StartProcessing
    \/ StopClick
    \/ StopCheck
    \/ StopTerminate
    \/ Thread
    \/ \E pid \in DOMAIN procs : ProcWrite(pid)
    \/ \E pid \in DOMAIN procs : ProcExit(pid)
    \/ Poll

SpecPoll == InitPoll /\ [][NextPoll]_vars

\* The sentinel is the n-th message the consumer took from the log queue.
SentinelHandledAt(n) == n \in 1..Len(history.got.log) /\ IsDone(history.got.log[n])

\* The consumer takes a sentinel from the log queue in this step.
HandlesSentinel ==
    /\ Len(history'.got.log) = Len(history.got.log) + 1
    /\ IsDone(history'.got.log[Len(history'.got.log)])

\* C23: on each queue, what the consumer has handled followed by what is
\* still queued is what was put, in the order it was put; a polling step is
\* never held up, whatever the queues hold; and when the consumer takes the
\* sentinel the thread has put its last message and no log message of the
\* thread is left in the queue (only the handler of "Stop" writes to the log
\* after the sentinel).
C23_QueuesInOrder ==
    /\ [](/\ history.got.log \o log_queue = history.put.log
          /\ history.got.debug \o debug_queue = history.put.debug
          /\ history.got.progress \o progress_queue = history.put.progress
          /\ ui_pc = "poll_log" => ENABLED PollLog
          /\ ui_pc = "poll_debug" => ENABLED PollDebug
          /\ ui_pc = "poll_progress" => ENABLED PollProgress)
    /\ [][HandlesSentinel =>
            /\ processing_thread \in {"exit", "none"}
            /\ \A n \in 1..Len(log_queue') : log_queue'[n].k = "STOPPING"]_vars

\* The consumer has handled the sentinel after three or more log messages of
\* the run, while it had also handled messages of the other two queues.
C23_Witness ==
    /\ \E n \in 4..Len(history.got.log) : SentinelHandledAt(n)
    /\ Len(history.got.debug) >= 2
    /\ Len(history.got.progress) >= 2
    /\ process_btn = "normal"

-----------------------------------------------------------------------------
\* One run after another: one file, up to MaxRunsAgain runs, the consumer
\* polling beside them.
RunsEnvironment ==
    [ MainEnvironment EXCEPT !.files = { f \in Files : f.stem = "a" /\ f.ext = ".mp4" },
                             !.existing = {},
                             !.runs = MaxRunsAgain ]

InitRuns == InitIn(RunsEnvironment) /\ Len(file_list) = 1 /\ tools_ok

SpecRuns == InitRuns /\ [][NextPoll]_vars

\* The sentinels the consumer has handled.
SentinelsHandled ==
    Cardinality({ n \in 1..Len(history.got.log) : IsDone(history.got.log[n]) })

\* C24: a run begins only when no thread of an earlier run is alive and the
\* sentinel of every earlier run has been handled; so at most one run is
\* unfinished for the consumer, and the sentinel it handles is that run's.
C24_OneRunInFlight ==
    /\ [](run - SentinelsHandled \in {0, 1})
    /\ [](sentinels <= 1)
    /\ [][run' # run =>
            /\ processing_thread = "none"
            /\ SentinelsHandled = run
            /\ run' = run + 1]_vars
    /\ [][SentinelsHandled' # SentinelsHandled =>
            SentinelsHandled' = run /\ processing_thread \in {"exit", "none"}]_vars

\* A second run is under way, after the sentinel of the first was handled.
C24_Witness ==
    /\ run = 2
    /\ SentinelsHandled = 1
    /\ processing_thread = "pv_read"
    /\ process_btn = "disabled"

\* "Stop" was clicked at some time, in this run or before it.
StopWasRequested ==
    \E n \in 1..Len(history.put.log) : history.put.log[n].k = "STOPPING"

\* C25: a run begins with the stop flag clear and no process handle, and in
\* a run during which "Stop" is not clicked no job ends Stopped, and none is
\* left Pending when the run ends without an exception of the loop.
C25_StopDoesNotLeak ==
    /\ [][run' # run => ~stop_event' /\ current_process' = 0]_vars
    /\ [](run > 0 /\ stopAt = NoStop =>
            /\ ~stop_event
            /\ \A j \in Jobs : state[j] # "Stopped"
            /\ Finished /\ ~raised => \A j \in BatchJobs : state[j] # "Pending")

\* The first run was stopped; the second, with no stop, has transcoded the
\* file.
C25_Witness ==
    /\ run = 2
    /\ Finished
    /\ StopWasRequested
    /\ stopAt = NoStop
    /\ state[1] = "Succeeded"

-----------------------------------------------------------------------------
\* Two files of one folder with the same stem, d/a.mp4 and d/a.mkv, both
\* listed; no output exists.
StemsEnvironment ==
    [ MainEnvironment EXCEPT !.files = { f \in Files : f.stem = "a" },
                             !.existing = {} ]

InitStems == InitIn(StemsEnvironment) /\ Len(file_list) = 2 /\ tools_ok

SpecStems == InitStems /\ [][NextLines]_vars

\* The job was handed to process_video.
HandedToWorker(j) == state[j] \notin {"Pending", "Skipped"}

\* C26: when a run has ended with no stop requested, nothing raised in the
\* loop and the list left alone, a job is Skipped only if the output path
\* derived for it existed when the run began, and every other job was handed
\* to the worker.
C26_SkippedOnlyIfExisted ==
    Finished /\ stopAt = NoStop /\ ~raised /\ ~touched =>
        \A j \in BatchJobs :
            /\ state[j] = "Skipped" => info[j].out \in existed
            /\ info[j].out \notin existed => HandedToWorker(j)

-----------------------------------------------------------------------------
\* A transcode of job j has ended with [SUCCESS], in this run or an earlier
\* one.
HasSucceeded(j) ==
    \E n \in 1..Len(history.put.log) :
        history.put.log[n].k = "SUCCESS" /\ history.put.log[n].v = j

\* C27: with no output before the first run and the same list in every run,
\* a job is Skipped in a run only if a transcode of it has succeeded before.
C27_SkippedOnlyAfterSuccess ==
    \A j \in BatchJobs : state[j] = "Skipped" => HasSucceeded(j)

-----------------------------------------------------------------------------
\* The job of the current iteration has had a line that signals the end of
\* progress forwarded.
ReportedEnd ==
    \E n \in 1..Len(DebugLines) : "progress=end" \in Lines[DebugLines[n]]

\* C28: the file-progress values of a job never decrease, and 100 is among
\* them only if ffmpeg reported the end of progress or the job Succeeded.
C28_ProgressNeverDecreases ==
    /\ \A m, n \in 1..Len(FileProgress) : m < n => FileProgress[m] <= FileProgress[n]
    /\ (\E n \in 1..Len(FileProgress) : FileProgress[n] = 100) =>
            ReportedEnd \/ (~InIteration /\ i >= 1 /\ state[i] = "Succeeded")

-----------------------------------------------------------------------------
\* The handler of "Stop" signals process pid in this step.
Terminates(pid) ==
    /\ pid \in DOMAIN procs /\ pid \in DOMAIN procs'
    /\ ~procs[pid].term
    /\ procs'[pid].term

\* C29: the handle is set only while the thread is between the spawn of a
\* job's process and the end of process_video for that job; and the one stop
\* request of a run signals a process only if it was made while the thread
\* was there, and then the process of the job the thread was at.
C29_HandleOnlyInRun ==
    /\ [](current_process # 0 =>
            processing_thread \in {"pv_read", "pv_wait", "pv_resolve"})
    /\ [][\A pid \in DOMAIN procs :
            Terminates(pid) /\ ~ui_error =>
                /\ stopAt.phase = "mid-stream"
                /\ procs[pid].out = info[stopAt.job].out]_vars

====
